---- MODULE Spec2Model ----
(***************************************************************************)
(* Telegram task assistant: the reminder sweep (GET /api/cron/reminders),  *)
(* the digest sweep (GET /api/cron/digest) and the message handler (POST   *)
(* with handleCommand, handleNaturalIntent and handleTaskCreation), over   *)
(* the shared task store.                                                  *)
(*                                                                         *)
(* The route handlers are modelled from their source.  The task service    *)
(* (@/lib/taskService), the parsers (@/lib/nlp) and the notifier           *)
(* (@/lib/telegram) are not part of the sources at hand; their operations  *)
(* are modelled from the design document (sections 3, 4.2 to 4.5 and 6).   *)
(***************************************************************************)
EXTENDS Integers, Sequences, FiniteSets, TLC

\* ---------------------------------------------------------------- bounds
NTasks == 3        \* tasks in the store
NOpen == 2         \* tasks still open when a behaviour with sweeps starts
MaxTime == 3       \* the clock runs over 0..MaxTime
MaxRuns == 2       \* sweep invocations in one behaviour of overlapping sweeps
MaxTurns == 2      \* message turns in one behaviour
SeqRuns == 4       \* sweep invocations in one behaviour of sweeps run in turn
SeqTurns == 1      \* message turns in one such behaviour
MaxSnooze == 2     \* the longest snooze duration a turn supplies
PostTurns == 1     \* message turns in one behaviour of the whole message handler
AppRuns == 1       \* sweep invocations in one behaviour of all three entry points
AppTurns == 1      \* message turns in one such behaviour

\* ------------------------------------------------- task service constants
DayLen == 2        \* instants in one calendar day
PreWindow == 1     \* the pre-reminder window, in instants

Users == {"u1", "u2"}
Tasks == 1..NTasks
Sweeps == {"a", "b"}          \* invocations that may overlap
Kinds == {"pre", "due"}
Time == 0..MaxTime
DueTime == 0..(MaxTime + MaxSnooze)
Null == -1

Day(t) == t \div DayLen
Days == 0..Day(MaxTime)

VARIABLES
    now,         \* the wall clock
    task,        \* Task rows: [user, dueDate, status, preReminderSent, dueReminderSent]
    lastDigest,  \* User.lastDigestAt, Null when never set
    rs,          \* reminder sweep invocations (locals of GET in reminders/route.ts)
    ds,          \* digest sweep invocations (locals of GET in digest/route.ts)
    remSent,     \* reminder messages delivered: task -> kind -> due shown -> count
    digSent,     \* digest messages delivered: user -> day -> "none"/"plan" -> count
    turn,        \* the last message turn: what was asked and what was answered
    nRuns,       \* sweep invocations so far
    nTurns       \* message turns so far

vars == <<now, task, lastDigest, rs, ds, remSent, digSent, turn, nRuns, nTurns>>

\* ---------------------------------------------------------------- helpers
\* All orderings of a finite set: the sweeps' queries promise no order.
Orderings(S) ==
    {f \in [1..Cardinality(S) -> S] : \A i, j \in 1..Cardinality(S) : i # j => f[i] # f[j]}

\* a task sorts before another by due instant, then by id (creation order)
Before(a, b) ==
    \/ task[a].dueDate < task[b].dueDate
    \/ task[a].dueDate = task[b].dueDate /\ a < b

\* the ids of S as a sequence ascending by due instant
RECURSIVE SortByDue(_)
SortByDue(S) ==
    IF S = {} THEN <<>>
    ELSE LET m == CHOOSE x \in S : \A y \in S \ {x} : Before(x, y)
         IN <<m>> \o SortByDue(S \ {m})

\* the row as a query returns it: a copy of the fields the handlers read
Row(t) == [id |-> t, dueDate |-> task[t].dueDate]

\* ----------------------------------------------------- task service (store)
OpenTasks(u) == {t \in Tasks : task[t].user = u /\ task[t].status = "open"}

listOpenTasks(u) == SortByDue(OpenTasks(u))

listTodayTasks(u) ==
    SortByDue({t \in OpenTasks(u) : Day(task[t].dueDate) = Day(now)})

fetchDueReminders ==
    {t \in Tasks : /\ task[t].status = "open"
                   /\ task[t].dueDate <= now
                   /\ ~task[t].dueReminderSent}

fetchUpcomingPreReminders ==
    {t \in Tasks : /\ task[t].status = "open"
                   /\ task[t].dueDate > now
                   /\ task[t].dueDate <= now + PreWindow
                   /\ ~task[t].preReminderSent}

markReminderSent(t, kind) ==
    IF kind = "pre"
    THEN [task EXCEPT ![t].preReminderSent = TRUE]
    ELSE [task EXCEPT ![t].dueReminderSent = TRUE]

fetchUsersForDailyDigest ==
    {u \in Users : lastDigest[u] = Null \/ Day(lastDigest[u]) # Day(now)}

recordDailyDigest(u) == [lastDigest EXCEPT ![u] = now]

\* markTaskDone: the index is resolved against the live open list
markTaskDone(u, n) ==
    LET open == listOpenTasks(u)
    IN IF n > Len(open) THEN [found |-> FALSE, id |-> 0, store |-> task]
       ELSE [found |-> TRUE, id |-> open[n],
             store |-> [task EXCEPT ![open[n]].status = "done"]]

\* snoozeTask: same resolution; a done task is never snoozed
snoozeTask(u, n, d) ==
    LET open == listOpenTasks(u)
    IN IF n > Len(open) \/ task[open[n]].status # "open"
       THEN [found |-> FALSE, id |-> 0, store |-> task]
       ELSE [found |-> TRUE, id |-> open[n],
             store |-> [task EXCEPT ![open[n]].dueDate = now + d,
                                    ![open[n]].preReminderSent = FALSE,
                                    ![open[n]].dueReminderSent = FALSE]]

\* sendMessage, delivered: the reminder text names the task and the due
\* instant of the row the sweep holds
sendReminder(t, kind, due) ==
    [remSent EXCEPT ![t][kind][due] = @ + 1]

sendDigest(u, body) ==
    [digSent EXCEPT ![u][Day(now)][body] = @ + 1]

\* how many reminders of a kind a task has been sent, over all due instants
RECURSIVE SumOver(_, _)
SumOver(f, S) ==
    IF S = {} THEN 0
    ELSE LET x == CHOOSE y \in S : TRUE IN f[x] + SumOver(f, S \ {x})

RemCount(t, kind) == SumOver(remSent[t][kind], DueTime)

\* how many digests a user has been sent on a day
DigCount(u, day) == digSent[u][day]["none"] + digSent[u][day]["plan"]

\* ------------------------------------------------------------------- Init
IdleR == [pc |-> "idle", phase |-> "pre", i |-> 0, preTasks |-> <<>>,
          dueTasks |-> <<>>, ok |-> TRUE, err |-> "none", sent |-> 0, at |-> 0]
IdleD == [pc |-> "idle", i |-> 0, users |-> <<>>, tasks |-> <<>>,
          ok |-> TRUE, err |-> "none", n |-> 0, at |-> 0]
NoTurn == [user |-> "u1", cmd |-> "none", n |-> 0, reply |-> "none", id |-> 0]

\* createTasks leaves every task open with both flags unset
NewTask(u, d) == [user |-> u, dueDate |-> d, status |-> "open",
                  preReminderSent |-> FALSE, dueReminderSent |-> FALSE]

InitRest ==
    /\ now = 0
    /\ lastDigest = [u \in Users |-> Null]
    /\ rs = [s \in Sweeps |-> IdleR]
    /\ ds = [s \in Sweeps |-> IdleD]
    /\ remSent = [t \in Tasks |-> [k \in Kinds |-> [d \in DueTime |-> 0]]]
    /\ digSent = [u \in Users |-> [d \in Days |-> [b \in {"none", "plan"} |-> 0]]]
    /\ turn = NoTurn
    /\ nRuns = 0
    /\ nTurns = 0

\* The store when the sweeps start: the first NOpen tasks are open, any
\* further task was completed before.
Init ==
    /\ \E due \in [Tasks -> 1..2], owner \in [Tasks -> Users] :
           /\ owner[1] = "u1"
           /\ \A t \in Tasks : t > NOpen => due[t] = 1 /\ owner[t] = "u1"
           /\ task = [t \in Tasks |->
                        IF t <= NOpen THEN NewTask(owner[t], due[t])
                        ELSE [NewTask(owner[t], due[t]) EXCEPT !.status = "done"]]
    /\ InitRest

\* The store when only message turns follow: every task is open.
InitCmd ==
    /\ \E due \in [Tasks -> 1..2], owner \in [Tasks -> Users] :
           /\ owner[1] = "u1"
           /\ task = [t \in Tasks |-> NewTask(owner[t], due[t])]
    /\ InitRest

\* a new invocation takes the first free slot: the slots are only names
Slot(inv, s) ==
    /\ inv[s].pc \in {"idle", "done"}
    /\ s = "b" => inv["a"].pc \notin {"idle", "done"}

\* ------------------------------------------------------------------ clock
Tick ==
    /\ now < MaxTime
    /\ now' = now + 1
    /\ UNCHANGED <<task, lastDigest, rs, ds, remSent, digSent, turn, nRuns, nTurns>>

\* --------------------------------------- GET /api/cron/reminders (route.ts)
\* where the loops stand after item i of `phase`: the next pre item, else the
\* first due item, else the response
RemNext(r, phase, i) ==
    IF phase = "pre" /\ i <= Len(r.preTasks)
      THEN [r EXCEPT !.pc = "send", !.phase = "pre", !.i = i]
    ELSE IF phase = "pre" /\ Len(r.dueTasks) >= 1
      THEN [r EXCEPT !.pc = "send", !.phase = "due", !.i = 1]
    ELSE IF phase = "due" /\ i <= Len(r.dueTasks)
      THEN [r EXCEPT !.pc = "send", !.phase = "due", !.i = i]
    ELSE [IdleR EXCEPT !.pc = "done", !.at = r.at,
                       !.sent = Len(r.dueTasks) + Len(r.preTasks)]

RemItem(r) == IF r.phase = "pre" THEN r.preTasks[r.i] ELSE r.dueTasks[r.i]

\* RemFetch with the two results bound the other way round
RemFetchSwapped(s) ==
    /\ Slot(rs, s)
    /\ nRuns' = nRuns + 1
    /\ \E preOrd \in Orderings(fetchDueReminders),
          dueOrd \in Orderings(fetchUpcomingPreReminders) :
          rs' = [rs EXCEPT ![s] =
                   RemNext([IdleR EXCEPT !.at = now,
                                         !.dueTasks = [i \in DOMAIN dueOrd |-> Row(dueOrd[i])],
                                         !.preTasks = [i \in DOMAIN preOrd |-> Row(preOrd[i])]],
                           "pre", 1)]
    /\ UNCHANGED <<now, task, lastDigest, ds, remSent, digSent, turn, nTurns>>

\* line 21: both queries are issued in the same turn and read the same clock
RemFetch(s) ==
    /\ Slot(rs, s)
    /\ nRuns' = nRuns + 1
    /\ \E dueOrd \in Orderings(fetchDueReminders),
          preOrd \in Orderings(fetchUpcomingPreReminders) :
          rs' = [rs EXCEPT ![s] =
                   RemNext([IdleR EXCEPT !.at = now,
                                         !.dueTasks = [i \in DOMAIN dueOrd |-> Row(dueOrd[i])],
                                         !.preTasks = [i \in DOMAIN preOrd |-> Row(preOrd[i])]],
                           "pre", 1)]
    /\ UNCHANGED <<now, task, lastDigest, ds, remSent, digSent, turn, nTurns>>

\* lines 25 and 31: sendMessage resolves
RemSend(s) ==
    /\ rs[s].pc = "send"
    /\ remSent' = sendReminder(RemItem(rs[s]).id, rs[s].phase, RemItem(rs[s]).dueDate)
    /\ rs' = [rs EXCEPT ![s].pc = "mark"]
    /\ UNCHANGED <<now, task, lastDigest, ds, digSent, turn, nRuns, nTurns>>

\* RemMark without the write of the flag
RemMarkSkipped(s) ==
    /\ rs[s].pc = "mark"
    /\ rs' = [rs EXCEPT ![s] = RemNext(rs[s], rs[s].phase, rs[s].i + 1)]
    /\ UNCHANGED <<now, task, lastDigest, ds, remSent, digSent, turn, nRuns, nTurns>>

\* lines 26 and 32: markReminderSent, then the loop goes on
RemMark(s) ==
    /\ rs[s].pc = "mark"
    /\ task' = markReminderSent(RemItem(rs[s]).id, rs[s].phase)
    /\ rs' = [rs EXCEPT ![s] = RemNext(rs[s], rs[s].phase, rs[s].i + 1)]
    /\ UNCHANGED <<now, lastDigest, ds, remSent, digSent, turn, nRuns, nTurns>>

\* RemCatch with a rejected send swallowed: the loop goes on to the mark
RemCatchSwallowed(s) ==
    /\ rs[s].pc = "send"
    /\ rs' = [rs EXCEPT ![s].pc = "mark"]
    /\ UNCHANGED <<now, task, lastDigest, ds, remSent, digSent, turn, nRuns, nTurns>>

\* lines 36-39: an awaited call rejects; the catch ends the sweep with 500
RemCatch(s) ==
    /\ rs[s].pc \in {"send", "mark"}
    /\ rs' = [rs EXCEPT ![s].pc = "done", ![s].ok = FALSE, ![s].err = rs[s].pc]
    /\ UNCHANGED <<now, task, lastDigest, ds, remSent, digSent, turn, nRuns, nTurns>>

\* ------------------------------------------ GET /api/cron/digest (route.ts)
\* the loop head: the next user's listTodayTasks, else the response
DigNext(d, i) ==
    IF i <= Len(d.users)
      THEN [d EXCEPT !.pc = "list", !.i = i, !.tasks = <<>>]
      ELSE [IdleD EXCEPT !.pc = "done", !.at = d.at, !.n = Len(d.users)]

\* line 20: fetchUsersForDailyDigest
DigFetch(s) ==
    /\ Slot(ds, s)
    /\ nRuns' = nRuns + 1
    /\ \E ord \in Orderings(fetchUsersForDailyDigest) :
          ds' = [ds EXCEPT ![s] = DigNext([IdleD EXCEPT !.at = now, !.users = ord], 1)]
    /\ UNCHANGED <<now, task, lastDigest, rs, remSent, digSent, turn, nTurns>>

\* line 23: listTodayTasks(user.id)
DigList(s) ==
    /\ ds[s].pc = "list"
    /\ ds' = [ds EXCEPT ![s].pc = "send",
                        ![s].tasks = listTodayTasks(ds[s].users[ds[s].i])]
    /\ UNCHANGED <<now, task, lastDigest, rs, remSent, digSent, turn, nRuns, nTurns>>

\* lines 24-25 and 29-40: the "no tasks" message or the numbered plan
DigSend(s) ==
    /\ ds[s].pc = "send"
    /\ digSent' = sendDigest(ds[s].users[ds[s].i],
                             IF Len(ds[s].tasks) = 0 THEN "none" ELSE "plan")
    /\ ds' = [ds EXCEPT ![s].pc = "record"]
    /\ UNCHANGED <<now, task, lastDigest, rs, remSent, turn, nRuns, nTurns>>

\* DigRecord without the write of the timestamp
DigRecordSkipped(s) ==
    /\ ds[s].pc = "record"
    /\ ds' = [ds EXCEPT ![s] = DigNext(ds[s], ds[s].i + 1)]
    /\ UNCHANGED <<now, task, lastDigest, rs, remSent, digSent, turn, nRuns, nTurns>>

\* lines 26-27 and 41: recordDailyDigest, then the next user
DigRecord(s) ==
    /\ ds[s].pc = "record"
    /\ lastDigest' = recordDailyDigest(ds[s].users[ds[s].i])
    /\ ds' = [ds EXCEPT ![s] = DigNext(ds[s], ds[s].i + 1)]
    /\ UNCHANGED <<now, task, rs, remSent, digSent, turn, nRuns, nTurns>>

\* lines 45-48: an awaited call rejects; the catch ends the sweep with 500
DigCatch(s) ==
    /\ ds[s].pc \in {"list", "send", "record"}
    /\ ds' = [ds EXCEPT ![s].pc = "done", ![s].ok = FALSE, ![s].err = ds[s].pc]
    /\ UNCHANGED <<now, task, lastDigest, rs, remSent, digSent, turn, nRuns, nTurns>>

\* ------------------------------------------- handleCommand (message turn)
\* CmdDone resolving the index one off
CmdDoneOneOff(u, n) ==
    /\ nTurns' = nTurns + 1
    /\ LET r == markTaskDone(u, n + 1)
       IN /\ task' = r.store
          /\ turn' = [user |-> u, cmd |-> "done", n |-> n, id |-> r.id,
                      reply |-> IF r.found THEN "Marked done" ELSE "couldn't find"]
    /\ UNCHANGED <<now, lastDigest, rs, ds, remSent, digSent, nRuns>>

\* case "done", lines 141-154, with a well-formed index
CmdDone(u, n) ==
    /\ nTurns' = nTurns + 1
    /\ LET r == markTaskDone(u, n)
       IN /\ task' = r.store
          /\ turn' = [user |-> u, cmd |-> "done", n |-> n, id |-> r.id,
                      reply |-> IF r.found THEN "Marked done" ELSE "couldn't find"]
    /\ UNCHANGED <<now, lastDigest, rs, ds, remSent, digSent, nRuns>>

\* CmdSnooze resolving the index one off
CmdSnoozeOneOff(u, n, d) ==
    /\ nTurns' = nTurns + 1
    /\ LET r == snoozeTask(u, n + 1, d)
       IN /\ task' = r.store
          /\ turn' = [user |-> u, cmd |-> "snooze", n |-> n, id |-> r.id,
                      reply |-> IF r.found THEN "Snoozed" ELSE "couldn't find"]
    /\ UNCHANGED <<now, lastDigest, rs, ds, remSent, digSent, nRuns>>

\* case "snooze", lines 155-170, with a well-formed index and duration
CmdSnooze(u, n, d) ==
    /\ nTurns' = nTurns + 1
    /\ LET r == snoozeTask(u, n, d)
       IN /\ task' = r.store
          /\ turn' = [user |-> u, cmd |-> "snooze", n |-> n, id |-> r.id,
                      reply |-> IF r.found THEN "Snoozed" ELSE "couldn't find"]
    /\ UNCHANGED <<now, lastDigest, rs, ds, remSent, digSent, nRuns>>

\* ------------------------------------------------------ nlp (token parsing)
\* An argument token is the sequence of its characters.
DigitVal == ("0" :> 0) @@ ("1" :> 1) @@ ("2" :> 2) @@ ("3" :> 3)
UnitLen == ("m" :> 1) @@ ("h" :> 2)      \* instants in a duration unit

IsNumeral(tok) == tok # <<>> /\ \A i \in DOMAIN tok : tok[i] \in DOMAIN DigitVal

RECURSIVE NumVal(_)
NumVal(tok) ==
    IF tok = <<>> THEN 0
    ELSE 10 * NumVal(SubSeq(tok, 1, Len(tok) - 1)) + DigitVal[tok[Len(tok)]]

\* parseIndex: a positive integer, else no value
parseIndex(tok) == IF IsNumeral(tok) /\ NumVal(tok) > 0 THEN NumVal(tok) ELSE Null

\* the duration grammar: one or more <digits><unit>; num is the number being
\* read (Null between groups), acc the instants of the groups read so far
RECURSIVE DurFrom(_, _, _, _)
DurFrom(tok, i, num, acc) ==
    IF i > Len(tok) THEN (IF num = Null THEN acc ELSE Null)
    ELSE IF tok[i] \in DOMAIN DigitVal
      THEN DurFrom(tok, i + 1, (IF num = Null THEN 0 ELSE 10 * num) + DigitVal[tok[i]], acc)
    ELSE IF tok[i] \in DOMAIN UnitLen /\ num # Null
      THEN DurFrom(tok, i + 1, Null, acc + num * UnitLen[tok[i]])
    ELSE Null

\* parseDuration: the instants of a duration token, else no value
parseDuration(tok) == IF tok = <<>> THEN Null ELSE DurFrom(tok, 1, Null, 0)

\* `!value` of the handler: null and 0 are both falsy
Falsy(v) == v = Null \/ v = 0

\* ------------------------------------------------------ the inbound update
\* A text is described by what the parsers make of it: whether it is empty,
\* a slash command (verb and argument tokens) or plain text; the intent
\* interpretNaturalIntent finds; the digits that /task\s*(\d+)/i captures
\* (<<>> when the pattern does not match); and the candidates
\* extractTasksFromText finds, each by the offset of its due instant.
NoText == [kind |-> "empty", verb |-> "", args |-> <<>>, intent |-> "none",
           ref |-> <<>>, cands |-> <<>>]
CommandText(verb, args, cands) ==
    [kind |-> "command", verb |-> verb, args |-> args, intent |-> "none",
     ref |-> <<>>, cands |-> cands]
PlainText(intent, ref, cands) ==
    [kind |-> "plain", verb |-> "", args |-> <<>>, intent |-> intent,
     ref |-> ref, cands |-> cands]

KnownVerbs == {"add", "next", "today", "list", "done", "snooze"}
NoCommand == [type |-> "", args |-> <<>>]

\* parseCommand: verb and positional arguments, nothing for an unknown verb
parseCommand(t) ==
    IF t.kind = "command" /\ t.verb \in KnownVerbs
    THEN [type |-> t.verb, args |-> t.args] ELSE NoCommand

interpretNaturalIntent(t) == t.intent

\* extractTasksFromText: every candidate has a concrete due instant
extractTasksFromText(t) == [i \in DOMAIN t.cands |-> now + t.cands[i]]

\* the inputs a turn is drawn from
IndexTokens == {<<"1">>, <<"2">>, <<"3">>, <<"0">>, <<"x">>, <<"-", "1">>}
DurTokens == {<<"1", "m">>, <<"2", "m">>, <<"1", "h">>, <<"1", "m", "1", "m">>,
              <<"0", "m">>, <<"m">>, <<"x">>, <<"1">>}
CandSets == {<<>>, <<1>>, <<1, 2>>}
DoneArgs == {<<>>} \cup {<<i>> : i \in IndexTokens}
SnoozeArgs == DoneArgs \cup {<<i, d>> : i \in IndexTokens, d \in DurTokens}
Texts ==
    {CommandText(v, <<>>, c) : v \in {"add", "foo"}, c \in CandSets}
    \cup {CommandText(v, <<>>, <<>>) : v \in {"next", "today", "list"}}
    \cup {CommandText("done", a, <<>>) : a \in DoneArgs}
    \cup {CommandText("snooze", a, <<>>) : a \in SnoozeArgs}
    \cup {PlainText(i, <<>>, c) : i \in {"none", "add"}, c \in CandSets}
    \cup {PlainText(i, <<>>, <<>>) : i \in {"next", "today", "list"}}
    \cup {PlainText("done", r, c) : r \in {<<>>, <<"1">>, <<"2">>, <<"0">>}, c \in CandSets}
NoVoice == [has |-> FALSE, fails |-> FALSE, text |-> NoText]
Voices ==
    {[has |-> TRUE, fails |-> TRUE, text |-> NoText]}
    \cup {[has |-> TRUE, fails |-> FALSE, text |-> t] :
            t \in {NoText, PlainText("none", <<>>, <<1>>), CommandText("next", <<>>, <<>>)}}
Updates ==
    {[auth |-> FALSE, valid |-> TRUE, from |-> "u1", text |-> NoText, voice |-> NoVoice],
     [auth |-> TRUE, valid |-> FALSE, from |-> "u1", text |-> NoText, voice |-> NoVoice]}
    \cup {[auth |-> TRUE, valid |-> TRUE, from |-> u, text |-> t, voice |-> NoVoice] :
            u \in Users, t \in Texts \cup {NoText}}
    \cup {[auth |-> TRUE, valid |-> TRUE, from |-> u, text |-> NoText, voice |-> v] :
            u \in Users, v \in Voices}

\* ------------------------------------------------ createTasks (taskService)
FreeIn(store) == {t \in Tasks : store[t].status = "free"}

\* one task per candidate, in input order
RECURSIVE CreateInto(_, _, _)
CreateInto(store, u, parsed) ==
    IF parsed = <<>> THEN store
    ELSE LET t == CHOOSE x \in FreeIn(store) : \A y \in FreeIn(store) : x <= y
         IN CreateInto([store EXCEPT ![t] = NewTask(u, Head(parsed))], u, Tail(parsed))

createTasks(u, parsed) == CreateInto(task, u, parsed)

\* formatTask(task, index): the line shows the number index + 1
formatTask(t, index) == [number |-> index + 1, id |-> t]

\* tasks.map((task, index) => formatTask(task, index)): indices from 0
FormatAll(tasks) == [i \in DOMAIN tasks |-> formatTask(tasks[i], i - 1)]

\* --------------------------------------------- the awaited calls of a turn
\* A handler is the sequence of calls it awaits, each with the line it is
\* made on: a message sent, a write of the task store, or any other call.
\* `site` is the line of POST the call is made from, itself or through the
\* handlers POST calls.
Send(line, text, shown) ==
    [op |-> "send", line |-> line, site |-> line, text |-> text, shown |-> shown]
Write(line, store) == [op |-> "write", line |-> line, site |-> line, store |-> store]
Await(line) == [op |-> "await", line |-> line, site |-> line]
Throw(line) == [op |-> "throw", line |-> line, site |-> line]

\* the calls of a handler invoked from line `site` of POST
Via(site, r) ==
    [r EXCEPT !.calls = [i \in DOMAIN r.calls |-> [r.calls[i] EXCEPT !.site = site]]]

\* respondWithTasks, lines 80-87
respondWithTasks(tasksText) ==
    IF Len(tasksText) = 0
    THEN Send(82, "No tasks yet", <<>>)
    ELSE Send(86, "bullets", tasksText)

\* handleTaskCreation sending one confirmation for each created task
handleTaskCreationPerTask(u, t) ==
    LET parsed == extractTasksFromText(t)
    IN IF Len(parsed) = 0
       THEN [cmd |-> "create", n |-> 0, id |-> 0,
             calls |-> <<Send(92, "couldn't detect", <<>>)>>]
       ELSE [cmd |-> "create", n |-> Len(parsed), id |-> 0,
             calls |-> <<Write(95, createTasks(u, parsed))>>
                       \o [i \in DOMAIN parsed |-> Send(100, "Task added", <<>>)]
                       \o <<Await(101)>>]

\* handleTaskCreation, lines 89-109
handleTaskCreation(u, t) ==
    LET parsed == extractTasksFromText(t)
    IN IF Len(parsed) = 0
       THEN [cmd |-> "create", n |-> 0, id |-> 0,
             calls |-> <<Send(92, "couldn't detect", <<>>)>>]
       ELSE [cmd |-> "create", n |-> Len(parsed), id |-> 0,
             calls |-> <<Write(95, createTasks(u, parsed)),
                         Send(100, "Task added", <<>>),
                         Await(101)>>]

\* case "next", lines 124-133
nextCase(u) ==
    LET tasks == listOpenTasks(u)
    IN [cmd |-> "next", n |-> 0, id |-> 0,
        calls |-> <<Await(125),
                    IF Len(tasks) = 0
                    THEN Send(127, "nothing pending", <<>>)
                    ELSE Send(131, "Next up",
                              FormatAll(SubSeq(tasks, 1, IF Len(tasks) < 3 THEN Len(tasks) ELSE 3)))>>]

\* todayCase closing the tasks it lists
todayCaseClosing(u, type) ==
    LET tasks == listTodayTasks(u)
    IN [cmd |-> type, n |-> 0, id |-> 0,
        calls |-> <<Write(136, [t \in Tasks |->
                                  IF \E i \in DOMAIN tasks : tasks[i] = t
                                  THEN [task[t] EXCEPT !.status = "done"]
                                  ELSE task[t]]),
                    respondWithTasks(FormatAll(tasks))>>]
\* case "today" and case "list", lines 134-140
todayCase(u, type) ==
    LET tasks == listTodayTasks(u)
    IN [cmd |-> type, n |-> 0, id |-> 0,
        calls |-> <<Await(136), respondWithTasks(FormatAll(tasks))>>]

\* case "done", lines 141-154
doneCase(u, args) ==
    LET index == IF Len(args) >= 1 THEN parseIndex(args[1]) ELSE Null
        r == markTaskDone(u, index)
    IN IF Falsy(index)
       THEN [cmd |-> "done", n |-> 0, id |-> 0,
             calls |-> <<Send(144, "usage done", <<>>)>>]
       ELSE [cmd |-> "done", n |-> index, id |-> r.id,
             calls |-> <<Write(147, r.store),
                         IF r.found THEN Send(152, "Marked done", <<>>)
                         ELSE Send(149, "couldn't find", <<>>)>>]

\* snoozeCase without the check of the duration
snoozeCaseUnchecked(u, args) ==
    LET index == IF Len(args) >= 1 THEN parseIndex(args[1]) ELSE Null
        duration == IF Len(args) >= 2 THEN parseDuration(args[2]) ELSE Null
        r == snoozeTask(u, index, duration)
    IN IF Falsy(index)
       THEN [cmd |-> "snooze", n |-> 0, id |-> 0,
             calls |-> <<Send(159, "usage snooze", <<>>)>>]
       ELSE [cmd |-> "snooze", n |-> index, id |-> r.id,
             calls |-> <<Write(162, r.store),
                         IF r.found THEN Send(168, "Snoozed", <<>>)
                         ELSE Send(164, "couldn't find", <<>>)>>]

\* case "snooze", lines 155-170
snoozeCase(u, args) ==
    LET index == IF Len(args) >= 1 THEN parseIndex(args[1]) ELSE Null
        duration == IF Len(args) >= 2 THEN parseDuration(args[2]) ELSE Null
        r == snoozeTask(u, index, duration)
    IN IF Falsy(index) \/ Falsy(duration)
       THEN [cmd |-> "snooze", n |-> 0, id |-> 0,
             calls |-> <<Send(159, "usage snooze", <<>>)>>]
       ELSE [cmd |-> "snooze", n |-> index, id |-> r.id,
             calls |-> <<Write(162, r.store),
                         IF r.found THEN Send(168, "Snoozed", <<>>)
                         ELSE Send(164, "couldn't find", <<>>)>>]

\* handleCommand, lines 111-174
handleCommand(u, t) ==
    LET parsedCommand == parseCommand(t)
    IN IF parsedCommand = NoCommand THEN handleTaskCreation(u, t)
       ELSE CASE parsedCommand.type = "add" -> handleTaskCreation(u, t)
              [] parsedCommand.type = "next" -> nextCase(u)
              [] parsedCommand.type \in {"today", "list"} -> todayCase(u, parsedCommand.type)
              [] parsedCommand.type = "done" -> doneCase(u, parsedCommand.args)
              [] parsedCommand.type = "snooze" -> snoozeCase(u, parsedCommand.args)
              [] OTHER -> handleTaskCreation(u, t)

\* case "done" of handleNaturalIntent, lines 193-201
naturalDone(u, t) ==
    IF t.ref = <<>>
    THEN [cmd |-> "intent", n |-> 0, id |-> 0,
          calls |-> <<Send(196, "Tell me which", <<>>)>>]
    ELSE handleCommand(u, CommandText("done", <<t.ref>>, <<>>))

\* handleNaturalIntent, lines 176-205
handleNaturalIntent(u, t) ==
    LET intent == interpretNaturalIntent(t)
    IN CASE intent = "none" -> handleTaskCreation(u, t)
         [] intent \in {"next", "today", "list"} ->
                handleCommand(u, CommandText(intent, <<>>, <<>>))
         [] intent = "done" -> naturalDone(u, t)
         [] OTHER -> handleTaskCreation(u, t)

\* lines 234-245: the text, typed or transcribed, is dispatched
Dispatch(u, t) ==
    IF t.kind = "empty"
      THEN [cmd |-> "empty", n |-> 0, id |-> 0,
            calls |-> <<Send(235, "Send me a task", <<>>)>>]
    ELSE IF t.kind = "command" THEN Via(240, handleCommand(u, t))
    ELSE Via(244, handleNaturalIntent(u, t))

\* voiceCatch without its return: the turn goes on to the check of the text
voiceCatchFallsThrough ==
    [cmd |-> "voice", n |-> 0, id |-> 0,
     calls |-> <<Send(229, "couldn't transcribe", <<>>),
                 Send(235, "Send me a task", <<>>)>>]

\* lines 227-231: the transcription failed
voiceCatch ==
    [cmd |-> "voice", n |-> 0, id |-> 0,
     calls |-> <<Send(229, "couldn't transcribe", <<>>)>>]

\* the calls before r's
After(pre, r) == [r EXCEPT !.calls = pre \o r.calls]

\* POST, lines 207-250
POST(m) ==
    IF ~m.auth
      THEN [cmd |-> "none", n |-> 0, id |-> 0, calls |-> <<Throw(209)>>]
    ELSE IF ~m.valid
      THEN [cmd |-> "none", n |-> 0, id |-> 0, calls |-> <<Await(210)>>]
    ELSE IF m.text.kind = "empty" /\ m.voice.has
      THEN IF m.voice.fails
           THEN After(<<Await(210), Await(219)>>, voiceCatch)
           ELSE After(<<Await(210), Await(219), Await(225)>>, Dispatch(m.from, m.voice.text))
    ELSE After(<<Await(210), Await(219)>>, Dispatch(m.from, m.text))

\* the try block opening only after the user was looked up
TryAfterUpsert == 220..246

\* the try block of POST and what its catch makes of a rejected call
TryPOST == 208..246
StatusOf(calls, k) ==
    IF k = Len(calls) THEN "ok"
    ELSE IF calls[k + 1].site \in TryPOST THEN "500"
    ELSE "uncaught"

\* the store after the calls that resolved
RECURSIVE StoreAfter(_, _)
StoreAfter(store, calls) ==
    IF calls = <<>> THEN store
    ELSE StoreAfter(IF Head(calls).op = "write" THEN Head(calls).store ELSE store,
                    Tail(calls))

IsSend(c) == c.op = "send"

\* One message turn: POST with update m; its first k calls resolve and, when
\* k is short of the last, the next one rejects.
Post(m) ==
    /\ Len(m.text.cands) <= Cardinality(FreeIn(task))
    /\ Len(m.voice.text.cands) <= Cardinality(FreeIn(task))
    /\ nTurns' = nTurns + 1
    /\ \E r \in {POST(m)} :
          \E k \in 0..Len(r.calls) :
             /\ \A j \in 1..k : r.calls[j].op # "throw"
             /\ \E msgs \in {SelectSeq(SubSeq(r.calls, 1, k), IsSend)} :
                   /\ task' = StoreAfter(task, SubSeq(r.calls, 1, k))
                   /\ turn' = [user |-> m.from, cmd |-> r.cmd, n |-> r.n, id |-> r.id,
                               reply |-> IF msgs = <<>> THEN "none"
                                         ELSE msgs[Len(msgs)].text,
                               msgs |-> msgs,
                               status |-> StatusOf(r.calls, k),
                               fault |-> IF k = Len(r.calls) THEN 0
                                         ELSE r.calls[k + 1].line,
                               upd |-> m]
    /\ UNCHANGED <<now, lastDigest, rs, ds, remSent, digSent, nRuns>>

\* lines 19-21 of either sweep: the secret check throws or the query rejects
RemReject(s) ==
    /\ Slot(rs, s)
    /\ nRuns' = nRuns + 1
    /\ rs' = [rs EXCEPT ![s] = [IdleR EXCEPT !.pc = "done", !.ok = FALSE,
                                             !.err = "fetch", !.at = now]]
    /\ UNCHANGED <<now, task, lastDigest, ds, remSent, digSent, turn, nTurns>>

DigReject(s) ==
    /\ Slot(ds, s)
    /\ nRuns' = nRuns + 1
    /\ ds' = [ds EXCEPT ![s] = [IdleD EXCEPT !.pc = "done", !.ok = FALSE,
                                             !.err = "fetch", !.at = now]]
    /\ UNCHANGED <<now, task, lastDigest, rs, remSent, digSent, turn, nTurns>>

\* ------------------------------------------------------------------- Spec
\* Overlapping sweeps of both kinds, any awaited call may reject.
Next ==
    \/ Tick
    \/ \E s \in Sweeps : nRuns < MaxRuns /\ RemFetch(s)
    \/ \E s \in Sweeps : RemSend(s)
    \/ \E s \in Sweeps : RemMark(s)
    \/ \E s \in Sweeps : RemCatch(s)
    \/ \E s \in Sweeps : nRuns < MaxRuns /\ DigFetch(s)
    \/ \E s \in Sweeps : DigList(s)
    \/ \E s \in Sweeps : DigSend(s)
    \/ \E s \in Sweeps : DigRecord(s)
    \/ \E s \in Sweeps : DigCatch(s)

Spec == Init /\ [][Next]_vars

\* Message turns (/done, /snooze) interleaved with a reminder sweep.
\* the index a turn supplies ranges to one beyond the tasks that can be open
Turn(maxN) ==
    /\ \E u \in Users, n \in 1..(maxN + 1) :
          \/ CmdDone(u, n)
          \/ \E d \in 1..MaxSnooze : CmdSnooze(u, n, d)

NextTurns ==
    \/ Tick
    \/ nRuns < MaxRuns /\ RemFetch("a")
    \/ RemSend("a")
    \/ RemMark("a")
    \/ RemCatch("a")
    \/ nTurns < MaxTurns /\ Turn(NOpen)

SpecTurns == Init /\ [][NextTurns]_vars

\* Message turns alone, over a store of open tasks.
NextCmd ==
    \/ Tick
    \/ nTurns < MaxTurns /\ Turn(NTasks)

SpecCmd == InitCmd /\ [][NextCmd]_vars

\* Sweeps and turns one after the other: nothing else runs while a sweep
\* runs, the clock does not move under it, and every call resolves.
Quiet == \A s \in Sweeps : rs[s].pc \in {"idle", "done"} /\ ds[s].pc \in {"idle", "done"}

NextSeq ==
    \/ Quiet /\ Tick
    \/ Quiet /\ nRuns < SeqRuns /\ RemFetch("a")
    \/ RemSend("a")
    \/ RemMark("a")
    \/ Quiet /\ nRuns < SeqRuns /\ DigFetch("a")
    \/ DigList("a")
    \/ DigSend("a")
    \/ DigRecord("a")
    \/ Quiet /\ nTurns < SeqTurns /\ Turn(NOpen)

SpecSeq == Init /\ [][NextSeq]_vars

\* The whole message handler, any awaited call may reject.  The store starts
\* with some tasks open and room for the tasks a turn creates.
InitWith(K) ==
    /\ \E due \in [Tasks -> 1..2], owner \in [Tasks -> Users], k \in K :
           /\ owner[1] = "u1"
           /\ \A t \in Tasks : t > k => due[t] = 1 /\ owner[t] = "u1"
           /\ task = [t \in Tasks |->
                        IF t <= k THEN NewTask(owner[t], due[t])
                        ELSE [NewTask(owner[t], due[t]) EXCEPT !.status = "free"]]
    /\ InitRest

InitPost == InitWith(0..NTasks)

NextPost ==
    \/ Tick
    \/ nTurns < PostTurns /\ \E m \in Updates : Post(m)

SpecPost == InitPost /\ [][NextPost]_vars

\* The three entry points side by side: both sweeps and the message handler,
\* one invocation at a time, any awaited call may reject.  The turns are drawn
\* from the updates with the shortest arguments of each shape.
FewUpdates ==
    {m \in Updates :
        /\ m.text.args \in {<<>>, << <<"1">> >>, << <<"x">> >>, << <<"1">>, <<"1", "m">> >>}
        /\ m.text.ref \in {<<>>, <<"1">>}
        /\ Len(m.text.cands) <= 1
        /\ m.from = "u1"}

NextApp ==
    \/ Quiet /\ Tick
    \/ Quiet /\ nRuns < AppRuns /\ RemFetch("a")
    \/ Quiet /\ nRuns < AppRuns /\ RemReject("a")
    \/ RemSend("a")
    \/ RemMark("a")
    \/ RemCatch("a")
    \/ Quiet /\ nRuns < AppRuns /\ DigFetch("a")
    \/ Quiet /\ nRuns < AppRuns /\ DigReject("a")
    \/ DigList("a")
    \/ DigSend("a")
    \/ DigRecord("a")
    \/ DigCatch("a")
    \/ Quiet /\ nTurns < AppTurns /\ \E m \in FewUpdates : Post(m)

InitApp == InitWith(1..NOpen)

SpecApp == InitApp /\ [][NextApp]_vars

\* The reminder sweep invoked again and again by the scheduler, while the
\* chat of one user rejects every send and the chat of the other accepts them.
Down == {"u2"}

\* line 21 in an invocation the behaviour does not count
RemFetchAgain(s) ==
    /\ Slot(rs, s)
    /\ \E dueOrd \in Orderings(fetchDueReminders),
          preOrd \in Orderings(fetchUpcomingPreReminders) :
          rs' = [rs EXCEPT ![s] =
                   RemNext([IdleR EXCEPT !.at = now,
                                         !.dueTasks = [i \in DOMAIN dueOrd |-> Row(dueOrd[i])],
                                         !.preTasks = [i \in DOMAIN preOrd |-> Row(preOrd[i])]],
                           "pre", 1)]
    /\ UNCHANGED <<now, task, lastDigest, ds, remSent, digSent, turn, nRuns, nTurns>>

\* the user whose chat the running loop sends to
RemChat(s) == task[RemItem(rs[s]).id].user

RemSendUp(s) == rs[s].pc = "send" /\ RemChat(s) \notin Down /\ RemSend(s)
RemSendDown(s) == rs[s].pc = "send" /\ RemChat(s) \in Down /\ RemCatch(s)

NextLive ==
    \/ Tick
    \/ RemFetchAgain("a")
    \/ RemSendUp("a")
    \/ RemSendDown("a")
    \/ RemMark("a")

SpecLive ==
    /\ Init /\ [][NextLive]_vars
    /\ WF_vars(RemFetchAgain("a"))
    /\ WF_vars(RemSendUp("a"))
    /\ WF_vars(RemSendDown("a"))
    /\ WF_vars(RemMark("a"))

\* ------------------------------------------------------------------ claims
Flag(t, kind) ==
    IF kind = "pre" THEN task[t].preReminderSent ELSE task[t].dueReminderSent

\* the tasks a reminder of the kind applies to at this instant
Applicable(kind) ==
    {t \in Tasks : /\ task[t].status = "open"
                   /\ IF kind = "due" THEN task[t].dueDate <= now
                      ELSE task[t].dueDate > now /\ task[t].dueDate <= now + PreWindow}

\* C1: reminder sweeps run one after the other over an unchanged task state
\* (no message turn, every send delivered) send each (task, kind) reminder
\* exactly once: no reminder is ever sent twice, a run only selects and sends
\* for tasks whose flag is unset and which were never sent that reminder, and
\* once a run has finished, every reminder applicable at that instant has been
\* sent once and a further run at that instant selects nothing.
C1_TwoRunsSendOnce ==
    nTurns = 0 =>
        /\ \A t \in Tasks, k \in Kinds : RemCount(t, k) <= 1
        /\ rs["a"].pc = "send" =>
              /\ ~Flag(RemItem(rs["a"]).id, rs["a"].phase)
              /\ RemCount(RemItem(rs["a"]).id, rs["a"].phase) = 0
        /\ (rs["a"].pc = "done" /\ rs["a"].at = now) =>
              /\ fetchDueReminders = {}
              /\ fetchUpcomingPreReminders = {}
              /\ \A k \in Kinds : \A t \in Applicable(k) :
                    Flag(t, k) /\ RemCount(t, k) = 1

\* a second run at the instant of the first selected nothing, after the first
\* had sent a due reminder at that instant
C1_Witness ==
    /\ nTurns = 0
    /\ rs["a"].pc = "done" /\ rs["a"].at = now /\ rs["a"].sent = 0
    /\ \E t \in Tasks : task[t].dueDate = now /\ RemCount(t, "due") = 1
    /\ \E t \in Tasks : task[t].dueDate = now + 1 /\ RemCount(t, "pre") = 1

\* C2: digest sweeps run one after the other send every user, also one with
\* no task for today, exactly one digest per calendar day: never two on a
\* day; what is sent is the "no tasks" message exactly when the user's list
\* for today is empty; once a sweep of the day has finished every user has
\* today's digest and today's marker, so a later sweep of the day sends none.
C2_OneDigestPerDay ==
    /\ \A u \in Users, d \in Days : DigCount(u, d) <= 1
    /\ ds["a"].pc = "record" =>
          LET u == ds["a"].users[ds["a"].i]
          IN digSent[u][Day(now)][IF listTodayTasks(u) = <<>> THEN "none" ELSE "plan"] = 1
    /\ (ds["a"].pc = "done" /\ Day(ds["a"].at) = Day(now)) =>
          /\ fetchUsersForDailyDigest = {}
          /\ \A u \in Users : DigCount(u, Day(now)) = 1 /\ lastDigest[u] # Null

\* a user with no open task got the "no tasks" message, and a later sweep of
\* the same day selected nobody
C2_Witness ==
    /\ ds["a"].pc = "done" /\ Day(ds["a"].at) = Day(now) /\ ds["a"].n = 0
    /\ \E u \in Users : /\ \A t \in Tasks : task[t].user # u
                         /\ digSent[u][Day(now)]["none"] = 1
                         /\ DigCount(u, Day(now)) = 1

\* C3: with overlapping sweep invocations (and no message turn), no (task,
\* kind) reminder and no (user, day) digest is sent more than once.
C3_NoDuplicateUnderOverlap ==
    /\ \A t \in Tasks, k \in Kinds : RemCount(t, k) <= 1
    /\ \A u \in Users, d \in Days : DigCount(u, d) <= 1

\* C4: a set reminder flag implies that the reminder of that kind was sent
\* for the task and its due instant, and a set digest marker implies that a
\* digest was sent to the user no later than the day the marker names, also
\* in executions where awaited calls reject.
C4_FlagImpliesSent ==
    /\ \A t \in Tasks, k \in Kinds : Flag(t, k) => remSent[t][k][task[t].dueDate] >= 1
    /\ \A u \in Users :
          lastDigest[u] # Null =>
              \E d \in Days : d <= Day(lastDigest[u]) /\ DigCount(u, d) >= 1

\* a send rejected: the sweep ended on it with the task's flag unset and no
\* reminder sent, while a digest sweep recorded a digest it had sent
C4_Witness ==
    /\ \E s \in Sweeps :
          /\ rs[s].pc = "done" /\ rs[s].err = "send"
          /\ ~Flag(RemItem(rs[s]).id, rs[s].phase)
          /\ RemCount(RemItem(rs[s]).id, rs[s].phase) = 0
    /\ \E u \in Users : lastDigest[u] # Null

\* the items of a failed reminder sweep other than the one it failed on
RemOthers(r) ==
    {[kind |-> "pre", row |-> r.preTasks[j]] :
        j \in {x \in DOMAIN r.preTasks : ~(r.phase = "pre" /\ x = r.i)}}
    \cup
    {[kind |-> "due", row |-> r.dueTasks[j]] :
        j \in {x \in DOMAIN r.dueTasks : ~(r.phase = "due" /\ x = r.i)}}

\* C5: when the send for one selected task rejects, the sweep leaves that
\* task's flag unset and still dispatches and flags every other task of the
\* batch before it ends.
C5_SendFailureNotFatal ==
    \A s \in Sweeps :
        (rs[s].pc = "done" /\ rs[s].err = "send") =>
            \A o \in RemOthers(rs[s]) :
                /\ remSent[o.row.id][o.kind][o.row.dueDate] >= 1
                /\ Flag(o.row.id, o.kind)

\* C6: when processing one user rejects, the digest sweep still sends and
\* records the digest of every other user it selected before it ends.
C6_DigestFailureNotFatal ==
    \A s \in Sweeps :
        (ds[s].pc = "done" /\ ~ds[s].ok) =>
            \A j \in DOMAIN ds[s].users :
                j # ds[s].i =>
                    /\ \E d \in Days : d >= Day(ds[s].at) /\ DigCount(ds[s].users[j], d) >= 1
                    /\ lastDigest[ds[s].users[j]] # Null

\* C7: no reminder is sent for a task once its status is done, and only an
\* open task is ever snoozed.
C7_NoReminderOnceDone ==
    [][/\ \A t \in Tasks :
             task[t].status = "done" => remSent'[t] = remSent[t]
       /\ (nTurns' # nTurns /\ turn'.cmd = "snooze" /\ turn'.reply = "Snoozed") =>
             task[turn'.id].status = "open"]_vars

\* C8: a successful snooze gives the n-th open task of the user the new due
\* instant, clears both its flags and leaves it open, and changes no other
\* task; and in sweeps run in turn a reminder is only sent for a task whose
\* flag of that kind is unset and names the task's current due instant, so
\* that after a snooze each kind is sent again, once, for the new instant.
C8_SnoozeReArms ==
    [][/\ (nTurns' # nTurns /\ turn'.cmd = "snooze") =>
             LET open == OpenTasks(turn'.user)
                 n == turn'.n
             IN IF n <= Cardinality(open)
                THEN \E t \in open :
                        /\ Cardinality({x \in open : Before(x, t)}) = n - 1
                        /\ turn'.reply = "Snoozed" /\ turn'.id = t
                        /\ task'[t].dueDate > now
                        /\ task' = [task EXCEPT ![t] =
                                      NewTask(task[t].user, task'[t].dueDate)]
                ELSE task' = task /\ turn'.reply = "couldn't find"
       /\ \A t \in Tasks, k \in Kinds, d \in DueTime :
             remSent'[t][k][d] # remSent[t][k][d] =>
                 /\ ~Flag(t, k)
                 /\ d = task[t].dueDate
                 /\ remSent'[t][k][d] = remSent[t][k][d] + 1]_vars

\* a task that had its due reminder was snoozed and then got the pre and
\* the due reminder of the new due instant, each once
C8_Witness ==
    /\ turn.cmd = "snooze" /\ turn.reply = "Snoozed"
    /\ LET t == turn.id
           d == task[turn.id].dueDate
       IN /\ \E d0 \in DueTime : d0 < d /\ remSent[t]["due"][d0] = 1
          /\ remSent[t]["pre"][d] = 1
          /\ remSent[t]["due"][d] = 1
          /\ task[t].preReminderSent /\ task[t].dueReminderSent

\* C9: every "reminder soon" comes from a sweep that selected the task while
\* the due instant it shows was still ahead: a sweep that finds a task
\* already due never sends it a "reminder soon", only the "due now".
C9_NoStaleSoon ==
    [][\A t \in Tasks :
          remSent'[t]["pre"] # remSent[t]["pre"] =>
              \E s \in Sweeps :
                  /\ rs[s].pc = "send" /\ rs[s].phase = "pre"
                  /\ RemItem(rs[s]).id = t
                  /\ rs[s].at < RemItem(rs[s]).dueDate
                  /\ rs[s].at < task[t].dueDate]_vars

\* a task whose due instant passed with the pre flag unset got the "due now"
\* and no "reminder soon"
C9_Witness ==
    \E t \in Tasks :
        /\ task[t].dueDate <= now
        /\ ~task[t].preReminderSent /\ task[t].dueReminderSent
        /\ RemCount(t, "pre") = 0 /\ RemCount(t, "due") = 1

\* C10: "/done N" marks exactly the N-th task of the user's open tasks in
\* ascending order of due instant and leaves every other task unchanged; for
\* N beyond the list it changes no task and answers that the task was not
\* found.
C10_DoneMarksNth ==
    [][(nTurns' # nTurns /\ turn'.cmd = "done") =>
          LET open == OpenTasks(turn'.user)
              n == turn'.n
          IN IF n <= Cardinality(open)
             THEN \E t \in open :
                     /\ Cardinality({x \in open : task[x].dueDate < task[t].dueDate}) <= n - 1
                     /\ Cardinality({x \in open : task[x].dueDate <= task[t].dueDate}) >= n
                     /\ task' = [task EXCEPT ![t].status = "done"]
                     /\ turn'.reply = "Marked done" /\ turn'.id = t
             ELSE task' = task /\ turn'.reply = "couldn't find"]_vars

\* three open tasks of one user, "/done 2" marked the second-soonest and left
\* the soonest and the latest open
C10_Witness ==
    /\ nTurns = 1
    /\ turn.cmd = "done" /\ turn.n = 2 /\ turn.reply = "Marked done"
    /\ task[turn.id].status = "done"
    /\ \E x, y \in Tasks \ {turn.id} :
          /\ x # y
          /\ task[x].user = turn.user /\ task[x].status = "open"
          /\ task[y].user = turn.user /\ task[y].status = "open"
          /\ task[x].dueDate < task[turn.id].dueDate
          /\ task[turn.id].dueDate <= task[y].dueDate

\* the text a turn works on: the typed one, else the transcription
EffectiveText(m) ==
    IF m.text.kind = "empty" /\ m.voice.has /\ ~m.voice.fails THEN m.voice.text
    ELSE m.text

\* a step that is a message turn on a well-formed, authorised update
MessageTurn == nTurns' # nTurns /\ turn'.upd.auth /\ turn'.upd.valid

MsgTexts(msgs) == [i \in DOMAIN msgs |-> msgs[i].text]

\* C11: a plain text classified as a "done" intent in which no task index can
\* be found is handled as free task text: the tasks extracted from it are
\* created and confirmed, or the reply is that no task was detected, exactly
\* as for a text with no intent.
C11_DoneWithoutIndexDowngraded ==
    [][(/\ MessageTurn /\ turn'.fault = 0
        /\ EffectiveText(turn'.upd).kind = "plain"
        /\ EffectiveText(turn'.upd).intent = "done"
        /\ EffectiveText(turn'.upd).ref = <<>>) =>
          LET parsed == extractTasksFromText(EffectiveText(turn'.upd))
          IN IF parsed = <<>>
             THEN task' = task /\ MsgTexts(turn'.msgs) = <<"couldn't detect">>
             ELSE /\ task' = createTasks(turn'.user, parsed)
                  /\ MsgTexts(turn'.msgs) = <<"Task added">>]_vars

\* the index and duration arguments the claim calls missing or malformed
BadIndexArg(args) == Len(args) = 0 \/ args[1] \in {<<"0">>, <<"x">>, <<"-", "1">>}
BadDurationArg(args) == Len(args) < 2 \/ args[2] \in {<<"m">>, <<"x">>, <<"1">>}

\* C12: "/done" with a missing or malformed index, and "/snooze" with a
\* missing or malformed index or duration, change no task and answer with the
\* usage hint of the command; a rejected call ends the turn with the failure
\* status, never with an exception out of the handler.
C12_BadArgumentGivesUsageHint ==
    [][(/\ MessageTurn
        /\ turn'.fault \notin {210, 219, 225}
        /\ EffectiveText(turn'.upd).kind = "command"
        /\ LET t == EffectiveText(turn'.upd)
           IN \/ t.verb = "done" /\ BadIndexArg(t.args)
              \/ t.verb = "snooze" /\ (BadIndexArg(t.args) \/ BadDurationArg(t.args))) =>
          /\ task' = task
          /\ turn'.status \in {"ok", "500"}
          /\ turn'.fault = 0 =>
                /\ turn'.status = "ok"
                /\ MsgTexts(turn'.msgs) =
                      <<IF EffectiveText(turn'.upd).verb = "done"
                        THEN "usage done" ELSE "usage snooze">>]_vars

\* "/snooze 1 x": a task to snooze was there, the duration was malformed, the
\* answer was the usage hint
C12_Witness ==
    /\ nTurns = 1
    /\ turn.upd.text.verb = "snooze"
    /\ turn.upd.text.args = << <<"1">>, <<"x">> >>
    /\ OpenTasks(turn.user) # {}
    /\ turn.reply = "usage snooze" /\ turn.status = "ok"

\* C13: when the transcription of a voice message fails, the turn changes no
\* task and processes no command or intent; the only message it sends is the
\* fixed "couldn't transcribe" one, and with that send delivered the turn
\* sends exactly this message and ends with the success status.
C13_TranscriptionFailure ==
    [][(/\ MessageTurn
        /\ turn'.fault \notin {210, 219}
        /\ turn'.upd.text.kind = "empty"
        /\ turn'.upd.voice.has /\ turn'.upd.voice.fails) =>
          /\ task' = task
          /\ turn'.cmd = "voice" /\ turn'.n = 0 /\ turn'.id = 0
          /\ turn'.fault = 0 =>
                /\ MsgTexts(turn'.msgs) = <<"couldn't transcribe">>
                /\ turn'.status = "ok"
          /\ turn'.fault # 0 => turn'.msgs = <<>>]_vars

\* the voice note of a user with open tasks could not be transcribed
C13_Witness ==
    /\ nTurns = 1
    /\ turn.upd.voice.has /\ turn.upd.voice.fails
    /\ OpenTasks(turn.user) # {}
    /\ turn.reply = "couldn't transcribe" /\ turn.status = "ok"

\* C14: every invocation of the reminder sweep, of the digest sweep and of
\* the message handler ends with the success result or with the generic
\* failure result (ok = false, status 500): a rejected call, wherever it is
\* made, is caught, and nothing else makes an invocation fail.
C14_FaultsCaughtAtTopLevel ==
    /\ \A s \in Sweeps :
          /\ rs[s].pc \in {"idle", "send", "mark", "done"}
          /\ rs[s].ok <=> rs[s].err = "none"
          /\ ds[s].pc \in {"idle", "list", "send", "record", "done"}
          /\ ds[s].ok <=> ds[s].err = "none"
    /\ nTurns > 0 =>
          /\ turn.status \in {"ok", "500"}
          /\ turn.status = "ok" <=> turn.fault = 0

\* the send inside the handler of a failed transcription rejected and the
\* turn ended with status 500, and a sweep ended with the failure result
C14_Witness ==
    /\ nTurns = 1 /\ turn.fault = 229 /\ turn.status = "500"
    /\ \/ rs["a"].pc = "done" /\ ~rs["a"].ok
       \/ ds["a"].pc = "done" /\ ~ds["a"].ok

\* the listing commands, typed or meant
ListingText(t) ==
    \/ t.kind = "command" /\ t.verb \in {"next", "today", "list"}
    \/ t.kind = "plain" /\ t.intent \in {"next", "today", "list"}

\* C15: the number a listing shows next to a task is the number that
\* "/done N" and "/snooze N" resolve to that task at that moment: for "/next",
\* "/today", "/list" and the natural intents routed to them, and for the
\* numbered plan of the daily digest.
C15_ShownIndexIsActionIndex ==
    [][/\ (/\ MessageTurn /\ turn'.fault = 0
           /\ ListingText(EffectiveText(turn'.upd))) =>
             \A i \in DOMAIN turn'.msgs[1].shown :
                LET l == turn'.msgs[1].shown[i]
                IN /\ markTaskDone(turn'.user, l.number).id = l.id
                   /\ snoozeTask(turn'.user, l.number, 1).id = l.id
       /\ \A s \in Sweeps :
             (ds[s].pc = "send" /\ ds'[s].pc = "record") =>
                \A i \in DOMAIN ds[s].tasks :
                   markTaskDone(ds[s].users[ds[s].i], (i - 1) + 1).id = ds[s].tasks[i]]_vars

\* C16: also when a snooze runs between the send and the flag write of a
\* reminder sweep, a flag is only ever set for the due instant whose reminder
\* was sent, so that no flag of the old due instant keeps the task from its
\* reminders for the new one.
C16_SnoozedTaskReFires ==
    [][\A t \in Tasks :
          /\ (~task[t].preReminderSent /\ task'[t].preReminderSent) =>
                remSent'[t]["pre"][task'[t].dueDate] >= 1
          /\ (~task[t].dueReminderSent /\ task'[t].dueReminderSent) =>
                remSent'[t]["due"][task'[t].dueDate] >= 1]_vars

\* C17: with the sweep invoked again and again, an open task of a user whose
\* chat accepts every send, due with its due flag unset, eventually has its
\* "due now" sent and its due flag set, whatever happens to the sends for
\* other tasks.
C17_DueReminderEventually ==
    \A t \in Tasks :
        (/\ task[t].user \notin Down /\ task[t].status = "open"
         /\ task[t].dueDate <= now /\ ~task[t].dueReminderSent)
        ~> (task[t].dueReminderSent /\ RemCount(t, "due") >= 1)

\* C18: a message turn in which no call rejects sends exactly one message,
\* on every path of the handler.
C18_OneMessagePerTurn ==
    [][(MessageTurn /\ turn'.fault = 0) =>
          Len(turn'.msgs) = 1 /\ turn'.status = "ok"]_vars

\* two tasks were created in one turn and confirmed in one message
C18_Witness ==
    /\ nTurns = 1
    /\ turn.cmd = "create" /\ turn.n = 2 /\ turn.status = "ok"
    /\ MsgTexts(turn.msgs) = <<"Task added">>
    /\ Cardinality(OpenTasks(turn.user)) >= 2

\* C19: "/next", "/today" and "/list", typed or meant, leave every task as it
\* is, and so does every step of the digest sweep, which writes only the
\* users' last-digest timestamps (and sends the digests).
C19_ListingsAndDigestReadOnly ==
    [][/\ (MessageTurn /\ ListingText(EffectiveText(turn'.upd))) => task' = task
       /\ ds' # ds =>
             /\ task' = task
             /\ rs' = rs /\ remSent' = remSent /\ turn' = turn]_vars

\* a listing that showed tasks and a digest sweep that sent a plan and
\* recorded it
C19_Witness ==
    /\ nTurns = 1 /\ turn.cmd \in {"next", "today", "list"}
    /\ turn.status = "ok" /\ turn.msgs[1].shown # <<>>
    /\ ds["a"].pc = "done" /\ ds["a"].ok /\ ds["a"].n >= 1
    /\ \E u \in Users : lastDigest[u] # Null /\ digSent[u][Day(lastDigest[u])]["plan"] = 1

====
